---- MODULE Spec2Model ----
(***************************************************************************)
(* Model of lib/dsm-prefetch/src/list.c: the sorted, self-merging list of  *)
(* memory spans, its node cache (pool) allocator and its public            *)
(* operations.  One list instance is modelled; every public operation is   *)
(* one atomic action (the body between pthread_mutex_lock and              *)
(* pthread_mutex_unlock).                                                  *)
(*                                                                         *)
(* Memory is modelled as a store of node_t records indexed by address.    *)
(* Addresses 1..NODE_CACHE_SIZE are the slots of the list's node cache,    *)
(* the addresses above are blocks handed out by popcorn_malloc; 0 is NULL. *)
(* The build modelled is the one with the cache enabled (no _NOCACHE) and  *)
(* with _CHECKS, in which node_create nulls the links and node_free zeroes *)
(* the node; the code never reads a freed node, so the other build differs *)
(* only in the content of dead storage.                                    *)
(***************************************************************************)
EXTENDS Integers, Sequences, FiniteSets, TLC

\* Addresses of spans range over 0..MaxAddr.
MaxAddr == 5

\* Capacity of the per-list node cache (scaled down so that the fall
\* through to popcorn_malloc happens).
NODE_CACHE_SIZE == 2

NULL == 0

Addr == 0 .. MaxAddr

\* memory_span_t values accepted by the public API (low < high).
ValidSpans == { s \in [low : Addr, high : Addr] : s.low < s.high }

PoolIds == 1 .. NODE_CACHE_SIZE

\* popcorn_malloc is assumed infallible: the heap has one block more than
\* the largest number of nodes that can be live at once.
HeapSize == (MaxAddr \div 2) + 2

HeapIds == (NODE_CACHE_SIZE + 1) .. (NODE_CACHE_SIZE + HeapSize)

NodeIds == PoolIds \cup HeapIds

ZeroSpan == [low |-> 0, high |-> 0]

ZeroNode == [prev |-> NULL, next |-> NULL, mem |-> ZeroSpan]

VARIABLES
  head,       \* l->head
  tail,       \* l->tail
  size,       \* l->size
  node,       \* the node_t stored at each address
  node_used,  \* l->cache->node_used[]
  heap,       \* blocks currently allocated by popcorn_malloc
  fault,      \* "none", or how the process died: "assert" or "segv"
  lastOp,     \* the public operation that ran last
  lastMem,    \* its span argument
  preSpans,   \* the stored spans, head to tail, before it ran
  preSize,    \* l->size before it ran
  ret,        \* the value list_overlaps returned
  derefNull,  \* whether it read a node through a NULL pointer
  lock,       \* l->lock: the recursive mutex, its owner and hold count
  thr,        \* per thread: where it is in which operation, its locals
  actor,      \* the thread that took the last step
  cur_cache,  \* list_init's static counter of caches handed out
  cache,      \* cache[]: the pre-allocated node caches
  lists,      \* the list_t objects of the process
  ithr,       \* per thread: where it is in list_init, the scope it holds
  handed,     \* how often list_init has handed out each cache index
  acted,      \* the thread and list of the last step on the lists
  mlfault     \* "none", or how the process with several lists died

vars == << head, tail, size, node, node_used, heap, fault,
           lastOp, lastMem, preSpans, preSize, ret, derefNull,
           lock, thr, actor,
           cur_cache, cache, lists, ithr, handed, acted, mlfault >>

\* The list and its memory.
listvars == << head, tail, size, node, node_used, heap >>

\* The record of the last operation.
histvars == << lastOp, lastMem, preSpans, preSize, ret, derefNull >>

\* The lock and the threads.
mtvars == << lock, thr, actor >>

\* The caches and the lists bound to them.
mlvars == << cur_cache, cache, lists, ithr, handed, acted, mlfault >>

\* The list and the memory it lives in, as one value the operations
\* transform.
L == [head |-> head, tail |-> tail, size |-> size, node |-> node,
      node_used |-> node_used, heap |-> heap, fault |-> fault]

MAX(a, b) == IF a > b THEN a ELSE b

Abort(c, how) == [c EXCEPT !.fault = how]

-----------------------------------------------------------------------------
(* Node API *)

\* popcorn_malloc: some block that is not allocated (the lowest free one;
\* nothing in the code depends on the address).
popcorn_malloc(c) ==
  CHOOSE n \in HeapIds : n \notin c.heap /\ \A m \in HeapIds : m < n => m \in c.heap

\* Variant: no fall through to popcorn_malloc; an exhausted cache is fatal.
node_create_poolonly(c, mem) ==
  IF \E i \in PoolIds : ~c.node_used[i]
  THEN LET i == CHOOSE i \in PoolIds :
                  ~c.node_used[i] /\ \A j \in PoolIds : j < i => c.node_used[j]
       IN [st |-> [c EXCEPT !.node_used[i] = TRUE,
                            !.node[i] = [prev |-> NULL, next |-> NULL, mem |-> mem]],
           n  |-> i]
  ELSE [st |-> Abort(c, "assert"), n |-> popcorn_malloc(c)]

\* node_create: first free cache slot, else malloc.  Yields the new state
\* and the node's address.
node_create(c, mem) ==
  IF \E i \in PoolIds : ~c.node_used[i]
  THEN LET i == CHOOSE i \in PoolIds :
                  ~c.node_used[i] /\ \A j \in PoolIds : j < i => c.node_used[j]
       IN [st |-> [c EXCEPT !.node_used[i] = TRUE,
                            !.node[i] = [prev |-> NULL, next |-> NULL, mem |-> mem]],
           n  |-> i]
  ELSE LET n == popcorn_malloc(c)
       IN [st |-> [c EXCEPT !.heap = @ \cup {n},
                            !.node[n] = [prev |-> NULL, next |-> NULL, mem |-> mem]],
           n  |-> n]

\* Variant: the used flag of a cache slot is not cleared.
node_free_leak(c, n) ==
  IF n \in PoolIds
  THEN [c EXCEPT !.node[n] = ZeroNode]
  ELSE [c EXCEPT !.node[n] = ZeroNode, !.heap = @ \ {n}]

\* node_free: a node inside the cache's slot array clears its used flag,
\* any other node goes back to the heap.
node_free(c, n) ==
  IF n \in PoolIds
  THEN IF ~c.node_used[n]
       THEN Abort(c, "assert")
       ELSE [c EXCEPT !.node[n] = ZeroNode, !.node_used[n] = FALSE]
  ELSE [c EXCEPT !.node[n] = ZeroNode, !.heap = @ \ {n}]

-----------------------------------------------------------------------------
(* Span predicates.  Each asserts a->low <= b->low. *)

span_order_assert(a, b) == a.low <= b.low

\* Variant: spans that only touch are not merged.
list_check_merge_strict(a, b) == (a.low = b.low) \/ (a.high > b.low)

list_check_merge(a, b) == (a.low = b.low) \/ (a.high >= b.low)

list_check_overlap(a, b) == (a.low = b.low) \/ (a.high > b.low)

\* Variant: a span ending exactly at a->high is not contained.
list_check_contained_strict(a, b) == (a.low <= b.low) /\ (a.high > b.high)

list_check_contained(a, b) == (a.low <= b.low) /\ (a.high >= b.high)

-----------------------------------------------------------------------------
(* Internal list API *)

\* Variant: a node whose low equals mem's low is passed over.
RECURSIVE seek_loop_skipequal(_, _, _)
seek_loop_skipequal(c, cur, mem) ==
  IF cur # NULL /\ c.node[cur].mem.low <= mem.low
  THEN seek_loop_skipequal(c, c.node[cur].next, mem)
  ELSE cur

RECURSIVE seek_loop(_, _, _)
seek_loop(c, cur, mem) ==
  IF cur # NULL /\ c.node[cur].mem.low < mem.low
  THEN seek_loop(c, c.node[cur].next, mem)
  ELSE cur

list_seek(c, mem) ==
  IF c.head # NULL THEN seek_loop(c, c.head, mem) ELSE NULL

\* Variant: a keeps its own high bound.
list_merge_keephigh(c, a, b) ==
  LET c1 == [c EXCEPT !.node[a].next = c.node[b].next]
      c2 == IF c1.node[a].next # NULL
            THEN [c1 EXCEPT !.node[c1.node[a].next].prev = a]
            ELSE [c1 EXCEPT !.tail = a]
      c3 == [c2 EXCEPT !.node[b] = ZeroNode]
      c4 == IF b \in PoolIds THEN [c3 EXCEPT !.node_used[b] = FALSE]
            ELSE [c3 EXCEPT !.heap = @ \ {b}]
  IN [c4 EXCEPT !.size = @ - 1]

\* Variant: a takes b's high bound instead of the larger of the two.
list_merge_nomax(c, a, b) ==
  LET c1 == [c EXCEPT !.node[a].mem.high = c.node[b].mem.high,
                      !.node[a].next = c.node[b].next]
      c2 == IF c1.node[a].next # NULL
            THEN [c1 EXCEPT !.node[c1.node[a].next].prev = a]
            ELSE [c1 EXCEPT !.tail = a]
      c3 == [c2 EXCEPT !.node[b] = ZeroNode]
      c4 == IF b \in PoolIds THEN [c3 EXCEPT !.node_used[b] = FALSE]
            ELSE [c3 EXCEPT !.heap = @ \ {b}]
  IN [c4 EXCEPT !.size = @ - 1]

\* list_merge: merge b into a; a must be directly before b.
list_merge(c, a, b) ==
  IF ~( a # NULL /\ b # NULL
        /\ c.node[a].mem.low <= c.node[b].mem.low
        /\ c.node[a].next = b /\ c.node[b].prev = a )
  THEN Abort(c, "assert")
  ELSE
    LET c1 == [c EXCEPT !.node[a].mem.high =
                           MAX(c.node[a].mem.high, c.node[b].mem.high),
                        !.node[a].next = c.node[b].next]
        c2 == IF c1.node[a].next # NULL
              THEN [c1 EXCEPT !.node[c1.node[a].next].prev = a]
              ELSE [c1 EXCEPT !.tail = a]
        c3 == node_free(c2, b)
    IN [c3 EXCEPT !.size = @ - 1]

\* Variant: deleting the tail does not move l->tail.
delete_unlink_notail(c, n) ==
  IF c.size = 1
  THEN [c EXCEPT !.head = NULL, !.tail = NULL, !.size = 0]
  ELSE IF n = c.head
  THEN [c EXCEPT !.head = c.node[n].next,
                 !.node[c.node[n].next].prev = NULL,
                 !.size = @ - 1]
  ELSE IF n = c.tail
  THEN [c EXCEPT !.node[c.node[n].prev].next = NULL,
                 !.size = @ - 1]
  ELSE [c EXCEPT !.node[c.node[n].prev].next = c.node[n].next,
                 !.node[c.node[n].next].prev = c.node[n].prev,
                 !.size = @ - 1]

\* list_delete, the unlinking: the branches on size, head and tail.
delete_unlink(c, n) ==
  IF c.size = 1
  THEN [c EXCEPT !.head = NULL, !.tail = NULL, !.size = 0]
  ELSE IF n = c.head
  THEN [c EXCEPT !.head = c.node[n].next,
                 !.node[c.node[n].next].prev = NULL,
                 !.size = @ - 1]
  ELSE IF n = c.tail
  THEN [c EXCEPT !.tail = c.node[n].prev,
                 !.node[c.node[n].prev].next = NULL,
                 !.size = @ - 1]
  ELSE [c EXCEPT !.node[c.node[n].prev].next = c.node[n].next,
                 !.node[c.node[n].next].prev = c.node[n].prev,
                 !.size = @ - 1]

\* list_delete, the value of the local next at the return.
delete_next(c, n) ==
  IF c.size = 1 THEN NULL
  ELSE IF n = c.head THEN c.node[n].next
  ELSE IF n = c.tail THEN NULL
  ELSE c.node[n].next

\* Variant: next is left NULL when the head is deleted.
list_delete_nonext(c, n) ==
  [st   |-> node_free(delete_unlink(c, n), n),
   next |-> IF c.size = 1 \/ n = c.head \/ n = c.tail THEN NULL
            ELSE c.node[n].next]

\* list_delete: unlink and free n.  Yields the new state and n's successor
\* (NULL when n was the tail or the only node).
list_delete(c, n) ==
  [st |-> node_free(delete_unlink(c, n), n), next |-> delete_next(c, n)]

-----------------------------------------------------------------------------
(* list_insert *)

\* Splice the new node n in front of the node found by list_seek.
insert_link(c, n, cur) ==
  IF cur = c.head
  THEN [c EXCEPT !.node[cur].prev = n,
                 !.node[n].next = cur,
                 !.node[n].prev = NULL,
                 !.head = n]
  ELSE IF cur = NULL
  THEN [c EXCEPT !.node[c.tail].next = n,
                 !.node[n].prev = c.tail,
                 !.node[n].next = NULL,
                 !.tail = n]
  ELSE [c EXCEPT !.node[c.node[cur].prev].next = n,
                 !.node[n].prev = c.node[cur].prev,
                 !.node[cur].prev = n,
                 !.node[n].next = cur]

\* Merge with the predecessor; at most once.  Yields the state and the
\* node the inserted span now lives in.
insert_merge_prev(c, n) ==
  LET prev == c.node[n].prev IN
  IF prev = NULL THEN [st |-> c, n |-> n]
  ELSE IF ~span_order_assert(c.node[prev].mem, c.node[n].mem)
  THEN [st |-> Abort(c, "assert"), n |-> n]
  ELSE IF list_check_merge(c.node[prev].mem, c.node[n].mem)
  THEN [st |-> list_merge(c, prev, n), n |-> prev]
  ELSE [st |-> c, n |-> n]

\* Variant: merges with one successor only.
insert_merge_next_once(c, n) ==
  LET next == c.node[n].next IN
  IF c.fault # "none" \/ next = NULL THEN c
  ELSE IF ~span_order_assert(c.node[n].mem, c.node[next].mem)
  THEN Abort(c, "assert")
  ELSE IF list_check_merge(c.node[n].mem, c.node[next].mem)
  THEN list_merge(c, n, next)
  ELSE c

\* Merge with successors for as long as they are mergeable.
RECURSIVE insert_merge_next(_, _)
insert_merge_next(c, n) ==
  LET next == c.node[n].next IN
  IF c.fault # "none" \/ next = NULL THEN c
  ELSE IF ~span_order_assert(c.node[n].mem, c.node[next].mem)
  THEN Abort(c, "assert")
  ELSE IF list_check_merge(c.node[n].mem, c.node[next].mem)
  THEN insert_merge_next(list_merge(c, n, next), n)
  ELSE c

list_insert(c, mem) ==
  IF ~(mem.low < mem.high) THEN Abort(c, "assert")
  ELSE
    LET cr == node_create(c, mem)
        c1 == cr.st
        n  == cr.n
    IN IF c1.head = NULL
       THEN [c1 EXCEPT !.head = n, !.tail = n, !.size = 1,
                       !.node[n].prev = NULL, !.node[n].next = NULL]
       ELSE
         LET cur == list_seek(c1, mem)
             c2  == insert_link(c1, n, cur)
             c3  == [c2 EXCEPT !.size = @ + 1]
             mp  == insert_merge_prev(c3, n)
         IN IF mp.st.fault # "none" THEN mp.st
            ELSE insert_merge_next(mp.st, mp.n)

-----------------------------------------------------------------------------
(* list_overlaps *)

\* What the read of next->prev->mem can produce when next->prev is NULL:
\* the access faults, or it yields whatever the words at that address hold.
\* The words read are arbitrary; the least and the greatest address stand
\* for them (they produce every outcome of the comparisons made on them).
WildWords == {0, MaxAddr}

NoWild == [segv : {TRUE}, low : {0}, high : {0}]

WildReads == NoWild \cup [segv : {FALSE}, low : WildWords, high : WildWords]

\* Whether list_overlaps(mem) reads through a NULL next->prev.
overlaps_reads_null(c, mem) ==
  /\ c.head # NULL
  /\ list_seek(c, mem) # NULL
  /\ c.node[list_seek(c, mem)].prev = NULL

\* list_check_overlap(&p->mem, mem) for a node pointer p that may be NULL;
\* wild is the outcome of the read when it is.  Yields "segv", "assert",
\* "true" or "false".
overlap_through(c, p, mem, wild) ==
  IF p = NULL /\ wild.segv THEN "segv"
  ELSE LET a == IF p # NULL THEN c.node[p].mem
                ELSE [low |-> wild.low, high |-> wild.high]
       IN IF ~span_order_assert(a, mem) THEN "assert"
          ELSE IF list_check_overlap(a, mem) THEN "true" ELSE "false"

\* list_overlaps: yields the state (only fault can change) and the result.
list_overlaps(c, mem, wild) ==
  IF ~(mem.low < mem.high) THEN [st |-> Abort(c, "assert"), overlaps |-> FALSE]
  ELSE IF c.head = NULL THEN [st |-> c, overlaps |-> FALSE]
  ELSE
    LET next == list_seek(c, mem) IN
    IF next = NULL
    THEN IF ~span_order_assert(c.node[c.tail].mem, mem)
         THEN [st |-> Abort(c, "assert"), overlaps |-> FALSE]
         ELSE [st |-> c,
               overlaps |-> list_check_overlap(c.node[c.tail].mem, mem)]
    ELSE
      LET first == overlap_through(c, c.node[next].prev, mem, wild) IN
      IF first \in {"segv", "assert"}
      THEN [st |-> Abort(c, first), overlaps |-> FALSE]
      ELSE IF first = "true" THEN [st |-> c, overlaps |-> TRUE]
      ELSE IF ~span_order_assert(mem, c.node[next].mem)
      THEN [st |-> Abort(c, "assert"), overlaps |-> FALSE]
      ELSE [st |-> c,
            overlaps |-> list_check_overlap(mem, c.node[next].mem)]

-----------------------------------------------------------------------------
(* list_remove *)

\* Variant: the predecessor is always trimmed, never split.
remove_prev_trim(c, prev, mem) ==
  IF prev = NULL THEN c
  ELSE IF ~span_order_assert(c.node[prev].mem, mem) THEN Abort(c, "assert")
  ELSE IF ~list_check_overlap(c.node[prev].mem, mem) THEN c
  ELSE [c EXCEPT !.node[prev].mem.high = mem.low]

\* Variant: the second new node starts at mem's low end.
remove_prev_adjacent(c, prev, mem) ==
  IF prev = NULL THEN c
  ELSE IF ~span_order_assert(c.node[prev].mem, mem) THEN Abort(c, "assert")
  ELSE IF ~list_check_overlap(c.node[prev].mem, mem) THEN c
  ELSE IF c.node[prev].mem.high <= mem.high
  THEN [c EXCEPT !.node[prev].mem.high = mem.low]
  ELSE
    LET cur_span == c.node[prev].mem
        c1 == list_delete(c, prev).st
        c2 == IF c1.fault # "none" THEN c1
              ELSE list_insert(c1, [low |-> cur_span.low, high |-> mem.low])
    IN IF c2.fault # "none" THEN c2
       ELSE list_insert(c2, [low |-> mem.low, high |-> cur_span.high])

\* Remove the overlapping region from the predecessor: trim its high end,
\* or, when mem is strictly inside it, replace it by two new nodes.
remove_prev(c, prev, mem) ==
  IF prev = NULL THEN c
  ELSE IF ~span_order_assert(c.node[prev].mem, mem) THEN Abort(c, "assert")
  ELSE IF ~list_check_overlap(c.node[prev].mem, mem) THEN c
  ELSE IF c.node[prev].mem.high <= mem.high
  THEN [c EXCEPT !.node[prev].mem.high = mem.low]
  ELSE
    LET cur_span == c.node[prev].mem
        c1 == list_delete(c, prev).st
        c2 == IF c1.fault # "none" THEN c1
              ELSE list_insert(c1, [low |-> cur_span.low, high |-> mem.low])
    IN IF c2.fault # "none" THEN c2
       ELSE list_insert(c2, [low |-> mem.high, high |-> cur_span.high])

\* Variant: stops after the first successor it deletes.
remove_next_once(c, cur, mem) ==
  IF c.fault # "none" \/ cur = NULL THEN c
  ELSE IF ~span_order_assert(mem, c.node[cur].mem) THEN Abort(c, "assert")
  ELSE IF ~list_check_overlap(mem, c.node[cur].mem) THEN c
  ELSE IF list_check_contained(mem, c.node[cur].mem)
  THEN list_delete(c, cur).st
  ELSE [c EXCEPT !.node[cur].mem.low = mem.high]

\* Variant: a contained successor is passed over instead of deleted.
RECURSIVE remove_next_nodelete(_, _, _)
remove_next_nodelete(c, cur, mem) ==
  IF c.fault # "none" \/ cur = NULL THEN c
  ELSE IF ~span_order_assert(mem, c.node[cur].mem) THEN Abort(c, "assert")
  ELSE IF ~list_check_overlap(mem, c.node[cur].mem) THEN c
  ELSE IF list_check_contained(mem, c.node[cur].mem)
  THEN remove_next_nodelete(c, c.node[cur].next, mem)
  ELSE [c EXCEPT !.node[cur].mem.low = mem.high]

\* Remove the overlapping regions from the successors.
RECURSIVE remove_next(_, _, _)
remove_next(c, cur, mem) ==
  IF c.fault # "none" \/ cur = NULL THEN c
  ELSE IF ~span_order_assert(mem, c.node[cur].mem) THEN Abort(c, "assert")
  ELSE IF ~list_check_overlap(mem, c.node[cur].mem) THEN c
  ELSE IF list_check_contained(mem, c.node[cur].mem)
  THEN LET d == list_delete(c, cur) IN remove_next(d.st, d.next, mem)
  ELSE remove_next([c EXCEPT !.node[cur].mem.low = mem.high], cur, mem)

list_remove(c, mem) ==
  IF ~(mem.low < mem.high) THEN Abort(c, "assert")
  ELSE IF c.head = NULL THEN c
  ELSE
    LET cur  == list_seek(c, mem)
        prev == IF cur # NULL THEN c.node[cur].prev ELSE c.tail
    IN remove_next(remove_prev(c, prev, mem), cur, mem)

-----------------------------------------------------------------------------
(* list_clear *)

\* Variant: next is read from the node after it was freed.
clear_loop_readsfreed(c, cur) ==
  IF c.fault # "none" \/ cur = NULL THEN c
  ELSE node_free(c, cur)

RECURSIVE clear_loop(_, _)
clear_loop(c, cur) ==
  IF c.fault # "none" \/ cur = NULL THEN c
  ELSE LET next == c.node[cur].next
       IN clear_loop(node_free(c, cur), next)

list_clear(c) ==
  LET c1 == clear_loop(c, c.head)
  IN IF c1.fault # "none" THEN c1
     ELSE [c1 EXCEPT !.head = NULL, !.tail = NULL, !.size = 0]

-----------------------------------------------------------------------------
(* Observation of the list, used by the history variables and properties *)

\* The spans met following next from n, at most k of them.
RECURSIVE Walk(_, _, _)
Walk(c, n, k) ==
  IF n = NULL \/ k = 0 THEN << >>
  ELSE << c.node[n].mem >> \o Walk(c, c.node[n].next, k - 1)

StoredSpans(c) == Walk(c, c.head, Cardinality(NodeIds) + 1)

-----------------------------------------------------------------------------
(* State machine *)

NoSpan == ZeroSpan

\* Number of threads that use the list.
NThreads == 2

Threads == 1 .. NThreads

\* Depth to which a thread nests list_atomic_start scopes.
MaxScope == 1

\* The list as list_init leaves it.
FreshList ==
  [head |-> NULL, tail |-> NULL, size |-> 0,
   node |-> [n \in NodeIds |-> ZeroNode],
   node_used |-> [i \in PoolIds |-> FALSE],
   heap |-> {}, fault |-> "none"]

\* A thread outside every list operation.
IdleThread ==
  [pc |-> "idle", op |-> "none", mem |-> NoSpan, imem |-> NoSpan,
   n |-> NULL, next |-> NULL, cur |-> NULL, cur_span |-> NoSpan,
   retpc |-> "idle", scope |-> 0, ret |-> FALSE, snap |-> FreshList]

\* Number of list_t objects of the process.
NLists == 2

Lists == 1 .. NLists

\* Number of entries of cache[].
NUM_CACHE == 2

\* The indices of cache[], and the index one past its end, which only an
\* out of range cur_cache reaches.
CacheIds == 0 .. (NUM_CACHE - 1)

CacheMem == 0 .. NUM_CACHE

\* A list_t outside any cache.
NoCache == NUM_CACHE + 1

\* A node_cache_t in zero-initialised static storage.
ZeroCache ==
  [node |-> [i \in PoolIds |-> ZeroNode],
   node_used |-> [i \in PoolIds |-> FALSE]]

\* A list_t before list_init: no cache, no nodes, no lock.
RawList ==
  [init |-> FALSE, cache |-> NoCache, head |-> NULL, tail |-> NULL,
   size |-> 0, hnode |-> [n \in HeapIds |-> ZeroNode], heap |-> {},
   lock |-> [owner |-> 0, count |-> 0]]

\* A thread outside list_init that holds no list's lock.
IdleInit == [pc |-> "idle", l |-> 0, seen |-> 0, held |-> 0]

NoAct == [t |-> 0, l |-> 0, op |-> "none"]

\* The process when k caches have been handed out to lists that are not
\* followed here.
MLInit(k) ==
  /\ cur_cache = k
  /\ cache = [i \in CacheMem |-> ZeroCache]
  /\ lists = [a \in Lists |-> RawList]
  /\ ithr = [t \in Threads |-> IdleInit]
  /\ handed = [i \in CacheMem |-> IF i < k THEN 1 ELSE 0]
  /\ acted = NoAct
  /\ mlfault = "none"

\* The mutex as pthread_mutex_init leaves it, no thread in any operation.
MTInit ==
  /\ lock = [owner |-> 0, count |-> 0]
  /\ thr = [t \in Threads |-> IdleThread]
  /\ actor = 0

Init ==
  /\ head = NULL
  /\ tail = NULL
  /\ size = 0
  /\ node = [n \in NodeIds |-> ZeroNode]
  /\ node_used = [i \in PoolIds |-> FALSE]
  /\ heap = {}
  /\ fault = "none"
  /\ lastOp = "init"
  /\ lastMem = NoSpan
  /\ preSpans = << >>
  /\ preSize = 0
  /\ ret = FALSE
  /\ derefNull = FALSE
  /\ MTInit
  /\ MLInit(0)

Commit(c) ==
  /\ head' = c.head
  /\ tail' = c.tail
  /\ size' = c.size
  /\ node' = c.node
  /\ node_used' = c.node_used
  /\ heap' = c.heap
  /\ fault' = c.fault

Record(op, mem) ==
  /\ lastOp' = op
  /\ lastMem' = mem
  /\ preSpans' = StoredSpans(L)
  /\ preSize' = size
  /\ UNCHANGED << mtvars, mlvars >>

Insert ==
  /\ fault = "none"
  /\ \E mem \in ValidSpans :
       /\ Commit(list_insert(L, mem))
       /\ Record("insert", mem)
  /\ ret' = FALSE
  /\ derefNull' = FALSE

Remove ==
  /\ fault = "none"
  /\ \E mem \in ValidSpans :
       /\ Commit(list_remove(L, mem))
       /\ Record("remove", mem)
  /\ ret' = FALSE
  /\ derefNull' = FALSE

Overlaps ==
  /\ fault = "none"
  /\ \E mem \in ValidSpans :
     \E wild \in (IF overlaps_reads_null(L, mem) THEN WildReads ELSE NoWild) :
       LET r == list_overlaps(L, mem, wild) IN
       /\ Commit(r.st)
       /\ Record("overlaps", mem)
       /\ ret' = r.overlaps
       /\ derefNull' = overlaps_reads_null(L, mem)

Clear ==
  /\ fault = "none"
  /\ Commit(list_clear(L))
  /\ Record("clear", NoSpan)
  /\ ret' = FALSE
  /\ derefNull' = FALSE

Next == Insert \/ Remove \/ Overlaps \/ Clear

Spec == Init /\ [][Next]_vars

-----------------------------------------------------------------------------
(* Vocabulary of the properties *)

\* The stored spans, head to tail, now.
Cur == StoredSpans(L)

\* The byte addresses of the half-open span [low, high).
Cells(s) == s.low .. (s.high - 1)

\* The addresses covered by a sequence of spans.
Covered(sq) == UNION { Cells(sq[i]) : i \in 1 .. Len(sq) }

\* Half-open intersection.
Intersects(s, t) == s.low < t.high /\ t.low < s.high

\* The operation op has run to completion as the last operation.
Did(op) == lastOp = op /\ fault = "none"

-----------------------------------------------------------------------------
\* C1: after any sequence of list_insert and list_remove calls with valid
\* spans the stored spans, head to tail, are strictly ascending by low,
\* non-overlapping and non-adjacent (a.high < b.low for consecutive a, b),
\* and each has low < high.
C1_ListInvariant ==
  /\ \A i \in 1 .. Len(Cur) : Cur[i].low < Cur[i].high
  /\ \A i \in 1 .. Len(Cur) - 1 :
       /\ Cur[i].low < Cur[i + 1].low
       /\ Cur[i].high < Cur[i + 1].low

\* A remove has left three separate spans behind, one of them trimmed.
C1_Witness ==
  /\ Did("remove")
  /\ Len(Cur) = 3
  /\ Cur # preSpans

\* C2: after list_insert the covered addresses are exactly those covered
\* before united with the inserted span.
C2_InsertCoverage ==
  lastOp = "insert" =>
    /\ fault = "none"
    /\ Covered(Cur) = Covered(preSpans) \cup Cells(lastMem)

\* An insert that bridges two stored spans and covers new addresses.
C2_Witness ==
  /\ Did("insert")
  /\ Len(preSpans) = 2
  /\ Len(Cur) = 1
  /\ Cells(lastMem) \ Covered(preSpans) # {}
  /\ Covered(preSpans) \ Cells(lastMem) # {}

\* C3: after list_remove the covered addresses are exactly those covered
\* before minus the removed span.
C3_RemoveCoverage ==
  lastOp = "remove" =>
    /\ fault = "none"
    /\ Covered(Cur) = Covered(preSpans) \ Cells(lastMem)

\* A remove that straddles the tail of one span and the head of the next.
C3_Witness ==
  /\ Did("remove")
  /\ \E i \in 1 .. Len(preSpans) - 1 :
       /\ preSpans[i].low < lastMem.low
       /\ lastMem.low < preSpans[i].high
       /\ preSpans[i + 1].low < lastMem.high
       /\ lastMem.high < preSpans[i + 1].high

\* C4: list_overlaps returns true iff some stored span s has
\* s.low = span.low or (s.low < span.high and span.low < s.high), for every
\* list (the empty one included) and every valid query span.
C4_OverlapsExact ==
  lastOp = "overlaps" =>
    /\ fault = "none"
    /\ ret = (\E i \in 1 .. Len(preSpans) :
                \/ preSpans[i].low = lastMem.low
                \/ Intersects(preSpans[i], lastMem))

\* C5: on a non-empty list, a query whose low is at most the head's low
\* (list_seek returns the head, which has no predecessor) completes
\* without reading a non-existent node and returns whether the span
\* overlaps the head.
C5_OverlapsAtHead ==
  ( /\ lastOp = "overlaps"
    /\ preSpans # << >>
    /\ lastMem.low <= preSpans[1].low )
  => /\ ~derefNull
     /\ fault = "none"
     /\ ret = Intersects(lastMem, preSpans[1])

-----------------------------------------------------------------------------
(* Insert: merging *)

\* The stored spans (by position, before the call) that the span m touches
\* or overlaps.
Touched(sq, m) ==
  { i \in 1 .. Len(sq) : sq[i].low <= m.high /\ m.low <= sq[i].high }

SetMin(S) == CHOOSE x \in S : \A y \in S : x <= y

SetMax(S) == CHOOSE x \in S : \A y \in S : x >= y

\* The list expected after inserting m where it touches or overlaps the
\* spans at positions T: one span from the least low to the greatest high
\* in their place, the others as they were.
MergedInto(sq, m, T) ==
  SubSeq(sq, 1, SetMin(T) - 1)
  \o << [low  |-> SetMin({m.low} \cup {sq[i].low : i \in T}),
         high |-> SetMax({m.high} \cup {sq[i].high : i \in T})] >>
  \o SubSeq(sq, SetMax(T) + 1, Len(sq))

\* C6 as stated: inserting a span that touches or overlaps k >= 1 stored
\* spans yields one span in their place, from the least low to the greatest
\* high, leaves the other spans unchanged and reduces the span count by k.
C6_MergeReducesByK ==
  ( lastOp = "insert" /\ Touched(preSpans, lastMem) # {} )
  => /\ fault = "none"
     /\ Cur = MergedInto(preSpans, lastMem, Touched(preSpans, lastMem))
     /\ size = preSize - Cardinality(Touched(preSpans, lastMem))
     /\ Len(Cur) = Len(preSpans) - Cardinality(Touched(preSpans, lastMem))

\* C6 amended: as above, but the k touched spans and the inserted one
\* become one span, so the span count goes down by k - 1.
C6_MergeReducesByKMinusOne ==
  ( lastOp = "insert" /\ Touched(preSpans, lastMem) # {} )
  => /\ fault = "none"
     /\ Cur = MergedInto(preSpans, lastMem, Touched(preSpans, lastMem))
     /\ size = preSize - (Cardinality(Touched(preSpans, lastMem)) - 1)
     /\ Len(Cur) = Len(preSpans) - (Cardinality(Touched(preSpans, lastMem)) - 1)

\* An insert that collapses a run of two stored spans, beside a third span
\* it does not touch.
C6_Witness ==
  /\ Did("insert")
  /\ Len(preSpans) = 3
  /\ Cardinality(Touched(preSpans, lastMem)) = 2
  /\ Len(Cur) = 2

\* C7: inserting a span that lies inside a stored span leaves every stored
\* span, the order and size as they were; inserting any span a second time
\* gives the list the first insert gave.
C7_InsertInsideIdempotent ==
  /\ ( /\ lastOp = "insert"
       /\ \E i \in 1 .. Len(preSpans) :
            preSpans[i].low <= lastMem.low /\ lastMem.high <= preSpans[i].high )
     => /\ fault = "none"
        /\ Cur = preSpans
        /\ size = preSize
  /\ fault = "none" =>
       \A m \in ValidSpans :
         LET once  == list_insert(L, m)
             twice == list_insert(once, m)
         IN /\ StoredSpans(twice) = StoredSpans(once)
            /\ twice.size = once.size
            /\ twice.fault = "none"

\* An insert strictly inside the second of two stored spans.
C7_Witness ==
  /\ Did("insert")
  /\ Len(preSpans) = 2
  /\ preSpans[2].low < lastMem.low
  /\ lastMem.high < preSpans[2].high

-----------------------------------------------------------------------------
(* Remove: split, delete, trim *)

\* C8: removing a span strictly inside one stored span p replaces p by
\* [p.low, span.low) and [span.high, p.high), leaves the other spans
\* unchanged and increases size by one.
C8_RemoveInsideSplits ==
  lastOp = "remove" =>
    \A i \in 1 .. Len(preSpans) :
      ( preSpans[i].low < lastMem.low /\ lastMem.high < preSpans[i].high )
      => /\ fault = "none"
         /\ Cur = SubSeq(preSpans, 1, i - 1)
                  \o << [low |-> preSpans[i].low, high |-> lastMem.low],
                        [low |-> lastMem.high, high |-> preSpans[i].high] >>
                  \o SubSeq(preSpans, i + 1, Len(preSpans))
         /\ size = preSize + 1
         /\ Covered(<< Cur[i], Cur[i + 1] >>) \cup Cells(lastMem)
              = Cells(preSpans[i])

\* A split of the first of two stored spans.
C8_Witness ==
  /\ Did("remove")
  /\ Len(preSpans) = 2
  /\ preSpans[1].low < lastMem.low
  /\ lastMem.high < preSpans[1].high
  /\ Len(Cur) = 3

\* C9: removing a span whose bounds equal those of a stored span deletes
\* that node, decrements size and leaves the other spans unchanged; when it
\* was the only node the list is empty: size 0, head and tail NULL.
C9_RemoveExactDeletes ==
  lastOp = "remove" =>
    \A i \in 1 .. Len(preSpans) :
      preSpans[i] = lastMem
      => /\ fault = "none"
         /\ Cur = SubSeq(preSpans, 1, i - 1)
                  \o SubSeq(preSpans, i + 1, Len(preSpans))
         /\ size = preSize - 1
         /\ (Len(preSpans) = 1 => size = 0 /\ head = NULL /\ tail = NULL)

\* The middle one of three stored spans is removed exactly.
C9_Witness ==
  /\ Did("remove")
  /\ Len(preSpans) = 3
  /\ preSpans[2] = lastMem
  /\ Len(Cur) = 2

\* What is left of the stored span s when m is removed: nothing if m
\* contains it, s itself if they do not intersect, else the part below
\* m.low and the part from m.high on.
Remainder(s, m) ==
  IF ~Intersects(s, m) THEN << s >>
  ELSE (IF s.low < m.low THEN << [low |-> s.low, high |-> m.low] >> ELSE << >>)
       \o (IF m.high < s.high THEN << [low |-> m.high, high |-> s.high] >> ELSE << >>)

RECURSIVE Remainders(_, _)
Remainders(sq, m) ==
  IF sq = << >> THEN << >>
  ELSE Remainder(Head(sq), m) \o Remainders(Tail(sq), m)

\* C10: list_remove deletes every stored span contained in the removed
\* span, trims the boundary spans (the lower one's high becomes span.low,
\* the upper one's low becomes span.high) and leaves every span that does
\* not intersect it unchanged, spans that only touch it included; on the
\* empty list or with no intersecting span nothing changes.
C10_RemoveFrame ==
  lastOp = "remove" =>
    /\ fault = "none"
    /\ Cur = Remainders(preSpans, lastMem)
    /\ size = Len(Cur)
    /\ (\A i \in 1 .. Len(preSpans) : ~Intersects(preSpans[i], lastMem))
         => (Cur = preSpans /\ size = preSize)

\* A remove that trims the high end of one span and deletes the span
\* after it, which it contains.
C10_Witness ==
  /\ Did("remove")
  /\ Len(preSpans) = 2
  /\ preSpans[1].low < lastMem.low
  /\ lastMem.low < preSpans[1].high
  /\ lastMem.low <= preSpans[2].low
  /\ preSpans[2].high <= lastMem.high
  /\ Cur = << [low |-> preSpans[1].low, high |-> lastMem.low] >>

-----------------------------------------------------------------------------
(* Size, traversal, pool *)

\* The addresses of the nodes met following next from n, at most k.
RECURSIVE WalkIds(_, _, _)
WalkIds(c, n, k) ==
  IF n = NULL \/ k = 0 THEN << >>
  ELSE << n >> \o WalkIds(c, c.node[n].next, k - 1)

\* The nodes a list_begin / list_next traversal visits, in order.
CurIds == WalkIds(L, head, Cardinality(NodeIds) + 1)

Range(sq) == { sq[i] : i \in 1 .. Len(sq) }

\* C11: after every completed insert, remove or clear, list_size equals
\* the number of steps from list_begin through list_next to list_end, the
\* traversal is strictly ascending by low, tail is the last node reached
\* from head, and head and tail are both NULL exactly when size is 0.
C11_SizeIsTraversalLength ==
  /\ size = Len(CurIds)
  /\ \A i \in 1 .. Len(Cur) - 1 : Cur[i].low < Cur[i + 1].low
  /\ tail = (IF CurIds = << >> THEN NULL ELSE CurIds[Len(CurIds)])
  /\ (head = NULL /\ tail = NULL) <=> (size = 0)
  /\ (head = NULL) <=> (tail = NULL)

\* A remove has deleted the tail of a three-node list.
C11_Witness ==
  /\ Did("remove")
  /\ Len(preSpans) = 3
  /\ Cur = SubSeq(preSpans, 1, 2)

\* The list expected after inserting m: merged with the spans it touches or
\* overlaps, or put at its place in the order when it touches none.
RefInsert(sq, m) ==
  IF Touched(sq, m) # {} THEN MergedInto(sq, m, Touched(sq, m))
  ELSE LET below == { i \in 1 .. Len(sq) : sq[i].low < m.low }
       IN SubSeq(sq, 1, Cardinality(below)) \o << m >>
          \o SubSeq(sq, Cardinality(below) + 1, Len(sq))

PoolFull == \A i \in PoolIds : node_used[i]

\* C17: an exhausted cache is silent: list_insert, and the re-inserts of
\* list_remove's split path, take their node from popcorn_malloc and
\* complete, so the list holds more spans than the cache has slots and the
\* stored spans are what they would be whatever the cache holds.
C17_PoolExhaustionSilent ==
  /\ lastOp = "insert" =>
       (fault = "none" /\ Cur = RefInsert(preSpans, lastMem) /\ size = Len(Cur))
  /\ lastOp = "remove" =>
       (fault = "none" /\ Cur = Remainders(preSpans, lastMem) /\ size = Len(Cur))
  /\ Len(Cur) > NODE_CACHE_SIZE => heap # {}

\* An insert into a list that already fills the cache: the new span lives
\* in a heap block.
C17_Witness ==
  /\ Did("insert")
  /\ Len(preSpans) = NODE_CACHE_SIZE
  /\ Len(Cur) = NODE_CACHE_SIZE + 1
  /\ PoolFull
  /\ \E i \in 1 .. Len(CurIds) : CurIds[i] \in HeapIds /\ Cur[i] = lastMem

\* C18: list_clear leaves the list empty (head and tail NULL, size 0, begin
\* = end), every node freed so that no cache slot is marked used and no heap
\* block is allocated; operations applied afterwards give what they give on
\* a freshly initialized list.
C18_ClearEmpties ==
  lastOp = "clear" =>
    /\ fault = "none"
    /\ head = NULL /\ tail = NULL /\ size = 0
    /\ Cur = << >>
    /\ \A i \in PoolIds : ~node_used[i]
    /\ heap = {}
    /\ node = [n \in NodeIds |-> ZeroNode]
    /\ \A m \in ValidSpans :
         /\ StoredSpans(list_insert(L, m)) = << m >>
         /\ StoredSpans(list_remove(L, m)) = << >>

\* A clear of a list of three nodes, more than the cache holds.
C18_Witness ==
  /\ Did("clear")
  /\ Len(preSpans) = 3
  /\ preSize = 3

\* C19: a cache slot is marked used iff exactly one node reachable from
\* head is stored in it; no node is reachable twice, no freed node is
\* reachable, no slot is marked used without a live node, and the number
\* of live nodes is the number of used slots plus allocated heap blocks.
C19_PoolConsistent ==
  /\ \A i, j \in 1 .. Len(CurIds) : CurIds[i] = CurIds[j] => i = j
  /\ \A i \in PoolIds : node_used[i] <=> (i \in Range(CurIds))
  /\ heap = Range(CurIds) \cap HeapIds
  /\ Len(CurIds) = Cardinality({ i \in PoolIds : node_used[i] }) + Cardinality(heap)
  /\ \A n \in NodeIds \ Range(CurIds) : node[n] = ZeroNode

\* A split by list_remove has freed a cache slot and taken it again.
C19_Witness ==
  /\ Did("remove")
  /\ Len(Cur) = Len(preSpans) + 1
  /\ PoolFull
  /\ heap # {}

-----------------------------------------------------------------------------
(* Threads: the operations step by step, under the list's recursive mutex *)

\* Spans the threads pass to the list have addresses in 0..MTMaxAddr.
MTMaxAddr == 3

MTSpans == { s \in ValidSpans : s.high <= MTMaxAddr }

\* Variant: the lock never makes a thread wait.
mutex_can_lock_always(m, t) == TRUE

\* pthread_mutex_lock on a PTHREAD_MUTEX_RECURSIVE mutex returns at once
\* when the mutex is free or held by the caller, else it blocks.
mutex_can_lock(m, t) == m.owner = 0 \/ m.owner = t

mutex_lock(m, t) == [owner |-> t, count |-> m.count + 1]

\* Variant: any unlock releases the mutex, whatever the hold count.
mutex_unlock_nocount(m, t) == [owner |-> 0, count |-> 0]

\* pthread_mutex_unlock: the mutex is released when the count drops to 0.
mutex_unlock(m, t) ==
  IF m.count = 1 THEN [owner |-> 0, count |-> 0]
  ELSE [m EXCEPT !.count = @ - 1]

\* Variant: the scope is opened without taking the lock.
list_atomic_start_nolock(m, t) == m

\* list_atomic_start: takes the list's lock.
list_atomic_start(m, t) == mutex_lock(m, t)

\* list_atomic_end: releases it.
list_atomic_end(m, t) == mutex_unlock(m, t)

\* The step of thread t leaves it with the locals loc.
Goes(t, loc) ==
  /\ thr' = [thr EXCEPT ![t] = loc]
  /\ actor' = t
  /\ UNCHANGED mlvars

\* Thread t returns to its caller outside the list, its locals gone.
Returned(t) == [IdleThread EXCEPT !.scope = thr[t].scope]

\* The step changes the list and its memory to c.
Writes(c) == Commit(c)

Reads == UNCHANGED << listvars, fault >>

\* A public operation is entered: the call and its pthread_mutex_lock.
Enter(t, op, mem, pc) ==
  /\ fault = "none"
  /\ thr[t].pc = "idle"
  /\ mutex_can_lock(lock, t)
  /\ lock' = mutex_lock(lock, t)
  /\ Goes(t, [thr[t] EXCEPT !.pc = pc, !.op = op, !.mem = mem, !.imem = mem,
                            !.retpc = "idle", !.snap = L])
  /\ Reads
  /\ UNCHANGED histvars

\* pthread_mutex_unlock at the end of a public operation, and the return.
Leave(t, pc) ==
  /\ fault = "none"
  /\ thr[t].pc = pc
  /\ lock' = mutex_unlock(lock, t)
  /\ Goes(t, Returned(t))
  /\ Reads
  /\ UNCHANGED histvars

\* A step inside an operation, with the lock held.
Step(t, pc) ==
  /\ fault = "none"
  /\ thr[t].pc = pc
  /\ UNCHANGED << lock, histvars >>

(* list_insert *)

CallInsert(t) == \E mem \in MTSpans : Enter(t, "insert", mem, "ins_create")

\* list_insert called by list_remove: pthread_mutex_lock by the holder.
InsLock(t) ==
  /\ fault = "none"
  /\ thr[t].pc = "ins_lock"
  /\ mutex_can_lock(lock, t)
  /\ lock' = mutex_lock(lock, t)
  /\ Goes(t, [thr[t] EXCEPT !.pc = "ins_create"])
  /\ Reads
  /\ UNCHANGED histvars

\* n = node_create(l->cache, mem, l->nid)
InsCreate(t) ==
  /\ Step(t, "ins_create")
  /\ LET cr == node_create(L, thr[t].imem) IN
     /\ Writes(cr.st)
     /\ Goes(t, [thr[t] EXCEPT !.pc = "ins_link", !.n = cr.n])

\* Variant: the splice does not count the new node.
ins_link_nosize(c, n, mem) ==
  IF c.head = NULL
  THEN [c EXCEPT !.head = n, !.tail = n, !.size = 1,
                 !.node[n].prev = NULL, !.node[n].next = NULL]
  ELSE insert_link(c, n, list_seek(c, mem))

\* The first node of the list, or the seek, the splice and size++.
ins_link(c, n, mem) ==
  IF c.head = NULL
  THEN [c EXCEPT !.head = n, !.tail = n, !.size = 1,
                 !.node[n].prev = NULL, !.node[n].next = NULL]
  ELSE [insert_link(c, n, list_seek(c, mem)) EXCEPT !.size = @ + 1]

InsLink(t) ==
  /\ Step(t, "ins_link")
  /\ Writes(ins_link(L, thr[t].n, thr[t].imem))
  /\ Goes(t, [thr[t] EXCEPT !.pc = IF head = NULL THEN "ins_unlock"
                                   ELSE "ins_mprev"])

\* Merge with the predecessor, then next = n->next.
InsMergePrev(t) ==
  /\ Step(t, "ins_mprev")
  /\ LET mp == insert_merge_prev(L, thr[t].n) IN
     /\ Writes(mp.st)
     /\ Goes(t, [thr[t] EXCEPT !.pc = "ins_mnext", !.n = mp.n,
                               !.next = mp.st.node[mp.n].next])

\* One test of the successor loop, and its body when the test succeeds.
InsMergeNext(t) ==
  /\ Step(t, "ins_mnext")
  /\ LET n == thr[t].n
         next == thr[t].next
     IN IF next = NULL
        THEN Reads /\ Goes(t, [thr[t] EXCEPT !.pc = "ins_unlock"])
        ELSE IF ~span_order_assert(node[n].mem, node[next].mem)
        THEN Writes(Abort(L, "assert")) /\ Goes(t, thr[t])
        ELSE IF list_check_merge(node[n].mem, node[next].mem)
        THEN LET c == list_merge(L, n, next) IN
             Writes(c) /\ Goes(t, [thr[t] EXCEPT !.next = c.node[n].next])
        ELSE Reads /\ Goes(t, [thr[t] EXCEPT !.pc = "ins_unlock"])

\* pthread_mutex_unlock, and the return to the caller: out of the list, or
\* back into list_remove.
InsUnlock(t) ==
  /\ fault = "none"
  /\ thr[t].pc = "ins_unlock"
  /\ lock' = mutex_unlock(lock, t)
  /\ Goes(t, IF thr[t].retpc = "idle" THEN Returned(t)
             ELSE [thr[t] EXCEPT !.pc = thr[t].retpc, !.n = NULL, !.next = NULL])
  /\ Reads
  /\ UNCHANGED histvars

(* list_remove *)

CallRemove(t) == \E mem \in MTSpans : Enter(t, "remove", mem, "rem_prev")

\* The seek and the predecessor: nothing to do, the trim of its high end,
\* or, when mem is strictly inside it, its deletion before the re-inserts.
RemPrev(t) ==
  /\ Step(t, "rem_prev")
  /\ LET mem  == thr[t].mem
         cur  == list_seek(L, mem)
         prev == IF cur # NULL THEN node[cur].prev ELSE tail
     IN IF head = NULL
        THEN Reads /\ Goes(t, [thr[t] EXCEPT !.pc = "rem_unlock"])
        ELSE IF prev = NULL
        THEN Reads /\ Goes(t, [thr[t] EXCEPT !.pc = "rem_walk", !.cur = cur])
        ELSE IF ~span_order_assert(node[prev].mem, mem)
        THEN Writes(Abort(L, "assert")) /\ Goes(t, thr[t])
        ELSE IF ~list_check_overlap(node[prev].mem, mem)
        THEN Reads /\ Goes(t, [thr[t] EXCEPT !.pc = "rem_walk", !.cur = cur])
        ELSE IF node[prev].mem.high <= mem.high
        THEN /\ Writes([L EXCEPT !.node[prev].mem.high = mem.low])
             /\ Goes(t, [thr[t] EXCEPT !.pc = "rem_walk", !.cur = cur])
        ELSE /\ Writes(list_delete(L, prev).st)
             /\ Goes(t, [thr[t] EXCEPT !.pc = "rem_ins1", !.cur = cur,
                                       !.cur_span = node[prev].mem])

\* list_insert(l, &new_span) with new_span = [cur_span.low, mem->low)
RemIns1(t) ==
  /\ Step(t, "rem_ins1")
  /\ Reads
  /\ Goes(t, [thr[t] EXCEPT !.pc = "ins_lock", !.retpc = "rem_ins2",
                            !.imem = [low  |-> thr[t].cur_span.low,
                                      high |-> thr[t].mem.low]])

\* list_insert(l, &new_span) with new_span = [mem->high, cur_span.high)
RemIns2(t) ==
  /\ Step(t, "rem_ins2")
  /\ Reads
  /\ Goes(t, [thr[t] EXCEPT !.pc = "ins_lock", !.retpc = "rem_walk",
                            !.imem = [low  |-> thr[t].mem.high,
                                      high |-> thr[t].cur_span.high]])

\* One test of the successor walk, and its body when the test succeeds.
RemWalk(t) ==
  /\ Step(t, "rem_walk")
  /\ LET mem == thr[t].mem
         cur == thr[t].cur
     IN IF cur = NULL
        THEN Reads /\ Goes(t, [thr[t] EXCEPT !.pc = "rem_unlock"])
        ELSE IF ~span_order_assert(mem, node[cur].mem)
        THEN Writes(Abort(L, "assert")) /\ Goes(t, thr[t])
        ELSE IF ~list_check_overlap(mem, node[cur].mem)
        THEN Reads /\ Goes(t, [thr[t] EXCEPT !.pc = "rem_unlock"])
        ELSE IF list_check_contained(mem, node[cur].mem)
        THEN LET d == list_delete(L, cur) IN
             Writes(d.st) /\ Goes(t, [thr[t] EXCEPT !.cur = d.next])
        ELSE /\ Writes([L EXCEPT !.node[cur].mem.low = mem.high])
             /\ Goes(t, thr[t])

RemUnlock(t) == Leave(t, "rem_unlock")

(* list_overlaps *)

CallOverlaps(t) == \E mem \in MTSpans : Enter(t, "overlaps", mem, "ovl_body")

OvlBody(t) ==
  /\ Step(t, "ovl_body")
  /\ \E wild \in (IF overlaps_reads_null(L, thr[t].mem) THEN WildReads
                  ELSE NoWild) :
       LET r == list_overlaps(L, thr[t].mem, wild) IN
       /\ Writes(r.st)
       /\ Goes(t, [thr[t] EXCEPT !.pc = "ovl_unlock", !.ret = r.overlaps])

OvlUnlock(t) == Leave(t, "ovl_unlock")

(* list_clear *)

CallClear(t) ==
  /\ Enter(t, "clear", NoSpan, "clr_head")

\* cur = l->head
ClrHead(t) ==
  /\ Step(t, "clr_head")
  /\ Reads
  /\ Goes(t, [thr[t] EXCEPT !.pc = "clr_loop", !.cur = head])

\* One test of the walk, and the node_free when a node is left.
ClrLoop(t) ==
  /\ Step(t, "clr_loop")
  /\ LET cur == thr[t].cur IN
     IF cur = NULL
     THEN Reads /\ Goes(t, [thr[t] EXCEPT !.pc = "clr_reset"])
     ELSE /\ Writes(node_free(L, cur))
          /\ Goes(t, [thr[t] EXCEPT !.cur = node[cur].next])

\* l->head = NULL; l->tail = NULL; l->size = 0
ClrReset(t) ==
  /\ Step(t, "clr_reset")
  /\ Writes([L EXCEPT !.head = NULL, !.tail = NULL, !.size = 0])
  /\ Goes(t, [thr[t] EXCEPT !.pc = "clr_unlock"])

ClrUnlock(t) == Leave(t, "clr_unlock")

(* list_print *)

CallPrint(t) == Enter(t, "print", NoSpan, "prt_body")

PrtBody(t) ==
  /\ Step(t, "prt_body")
  /\ Reads
  /\ Goes(t, [thr[t] EXCEPT !.pc = "prt_unlock"])

PrtUnlock(t) == Leave(t, "prt_unlock")

(* list_atomic_start, list_atomic_end *)

AtomicStart(t) ==
  /\ fault = "none"
  /\ thr[t].pc = "idle"
  /\ thr[t].scope < MaxScope
  /\ mutex_can_lock(lock, t)
  /\ lock' = list_atomic_start(lock, t)
  /\ Goes(t, [thr[t] EXCEPT !.scope = @ + 1])
  /\ Reads
  /\ UNCHANGED histvars

AtomicEnd(t) ==
  /\ fault = "none"
  /\ thr[t].pc = "idle"
  /\ thr[t].scope > 0
  /\ lock' = list_atomic_end(lock, t)
  /\ Goes(t, [thr[t] EXCEPT !.scope = @ - 1])
  /\ Reads
  /\ UNCHANGED histvars

MTNext ==
  \E t \in Threads :
    \/ CallInsert(t) \/ InsLock(t) \/ InsCreate(t) \/ InsLink(t)
    \/ InsMergePrev(t) \/ InsMergeNext(t) \/ InsUnlock(t)
    \/ CallRemove(t) \/ RemPrev(t) \/ RemIns1(t) \/ RemIns2(t)
    \/ RemWalk(t) \/ RemUnlock(t)
    \/ CallOverlaps(t) \/ OvlBody(t) \/ OvlUnlock(t)
    \/ CallClear(t) \/ ClrHead(t) \/ ClrLoop(t) \/ ClrReset(t) \/ ClrUnlock(t)
    \/ CallPrint(t) \/ PrtBody(t) \/ PrtUnlock(t)
    \/ AtomicStart(t) \/ AtomicEnd(t)

\* The list after list_init, the threads outside it.
MTStart ==
  /\ head = NULL
  /\ tail = NULL
  /\ size = 0
  /\ node = [n \in NodeIds |-> ZeroNode]
  /\ node_used = [i \in PoolIds |-> FALSE]
  /\ heap = {}
  /\ fault = "none"
  /\ lastOp = "init"
  /\ lastMem = NoSpan
  /\ preSpans = << >>
  /\ preSize = 0
  /\ ret = FALSE
  /\ derefNull = FALSE
  /\ MTInit
  /\ MLInit(0)

SpecMT == MTStart /\ [][MTNext]_vars

-----------------------------------------------------------------------------
(* Properties of the threaded list *)

\* The invariant of the list: strictly ascending, disjoint, non-adjacent
\* spans, and size the number of nodes reachable from head.
ListWellFormed ==
  /\ \A i \in 1 .. Len(Cur) : Cur[i].low < Cur[i].high
  /\ \A i \in 1 .. Len(Cur) - 1 :
       Cur[i].low < Cur[i + 1].low /\ Cur[i].high < Cur[i + 1].low
  /\ size = Len(CurIds)

\* Thread t is between the pthread_mutex_lock and the pthread_mutex_unlock
\* of a public operation.
InBody(t) == thr[t].pc # "idle"

\* The number of times thread t holds the lock.
Hold(t) == IF lock.owner = t THEN lock.count ELSE 0

\* C12 as stated: the list invariant holds in every reachable state, the
\* states another thread can read through list_size and list_begin /
\* list_next in the middle of a list_insert or list_remove included.
C12_InvariantInEveryState == ListWellFormed

\* C12 amended: the list invariant holds in every state in which no thread
\* is inside list_insert, list_remove or list_clear.
C12_InvariantBetweenOperations ==
  (\A t \in Threads : ~InBody(t)) => ListWellFormed

\* Both threads are outside the list, the last step was thread 2's, and
\* the list holds two spans.
C12_Witness ==
  /\ fault = "none"
  /\ \A t \in Threads : ~InBody(t)
  /\ actor = 2
  /\ Len(Cur) = 2
  /\ lock.owner = 0

\* The list fields of a bundle, without the fault flag.
ListOf(c) == <<c.head, c.tail, c.size, c.node, c.node_used, c.heap>>

\* C13: no two threads are inside the lock-guarded bodies at once, the
\* thread inside holds the lock, and when an operation reaches its unlock
\* the list is the result of applying that operation, in one piece, to the
\* list it found when it took the lock.
C13_MutualExclusion ==
  /\ \A t, u \in Threads : (InBody(t) /\ InBody(u)) => t = u
  /\ \A t \in Threads : InBody(t) => lock.owner = t
  /\ \A t \in Threads :
       /\ (thr[t].pc = "ins_unlock" /\ thr[t].retpc = "idle")
            => L = list_insert(thr[t].snap, thr[t].mem)
       /\ thr[t].pc = "rem_unlock" => L = list_remove(thr[t].snap, thr[t].mem)
       /\ thr[t].pc = "clr_unlock" => L = list_clear(thr[t].snap)
       /\ thr[t].pc \in {"ovl_unlock", "prt_unlock"}
            => ListOf(L) = ListOf(thr[t].snap)

\* Thread 2 is at the unlock of a list_remove that split a span, on a list
\* thread 1 has worked on.
C13_Witness ==
  /\ fault = "none"
  /\ thr[2].pc = "rem_unlock"
  /\ thr[2].cur_span # NoSpan
  /\ thr[1].pc = "idle"
  /\ size = 2

\* C14: while a thread is between its list_atomic_start and the matching
\* list_atomic_end it holds the lock, and no step of another thread changes
\* the list: what list_overlaps saw is what the list_insert after it finds,
\* and a list_begin / list_next traversal sees one list.
C14_AtomicScope ==
  /\ [](\A t \in Threads : thr[t].scope > 0 => lock.owner = t)
  /\ [][\A t \in Threads :
          (thr[t].scope > 0 /\ actor' # t) => UNCHANGED listvars]_vars

\* Thread 1, inside its scope, is at the unlock of a list_insert; thread 2
\* has used the list before and is kept out.
C14_Witness ==
  /\ fault = "none"
  /\ thr[1].scope = 1
  /\ thr[1].pc = "ins_unlock"
  /\ thr[1].snap.size = 1
  /\ size = 2
  /\ thr[2].pc = "idle"

\* C15: the lock is reentrant and balanced.  A thread's hold count is the
\* number of its open atomic scopes, plus one inside a public operation,
\* plus one more inside the list_insert that list_remove calls; the holder
\* is never made to wait for its own lock; the lock is free exactly when
\* the count is 0.
C15_LockReentrantBalanced ==
  /\ \A t \in Threads :
       /\ Hold(t) = thr[t].scope
                    + (IF thr[t].pc \in {"idle"} THEN 0 ELSE 1)
                    + (IF thr[t].pc \in {"ins_create", "ins_link", "ins_mprev",
                                         "ins_mnext", "ins_unlock"}
                          /\ thr[t].retpc # "idle" THEN 1 ELSE 0)
       /\ (lock.owner = t /\ thr[t].pc \in {"idle", "ins_lock"})
            => mutex_can_lock(lock, t)
  /\ (lock.owner = 0) <=> (lock.count = 0)
  /\ lock.count >= 0

\* A thread inside its atomic scope, inside list_remove, inside the
\* list_insert of the split path: it holds the lock three times.
C15_Witness ==
  /\ fault = "none"
  /\ \E t \in Threads :
       /\ thr[t].scope = 1
       /\ thr[t].pc = "ins_link"
       /\ thr[t].retpc = "rem_walk"
       /\ lock = [owner |-> t, count |-> 3]

-----------------------------------------------------------------------------
(* Several lists: list_init, and the operations on the lists it has bound
   to the entries of cache[] *)

\* Largest address of the spans the threads insert into and remove from
\* the lists.
MLMaxAddr == 2

MLSpans == { s \in ValidSpans : s.high <= MLMaxAddr }

\* The list a and its memory as the one value the operations transform:
\* the nodes of the cache it is bound to and its blocks of the heap.
Bundle(a) ==
  [head |-> lists[a].head, tail |-> lists[a].tail, size |-> lists[a].size,
   node |-> [n \in NodeIds |->
               IF n \in PoolIds THEN cache[lists[a].cache].node[n]
                                ELSE lists[a].hnode[n]],
   node_used |-> cache[lists[a].cache].node_used,
   heap |-> lists[a].heap, fault |-> mlfault]

\* The operation on list a has left the list and its memory as c.
Unbundle(a, c) ==
  /\ lists' = [lists EXCEPT ![a] =
                 [@ EXCEPT !.head = c.head, !.tail = c.tail, !.size = c.size,
                           !.hnode = [n \in HeapIds |-> c.node[n]],
                           !.heap = c.heap]]
  /\ cache' = [cache EXCEPT ![lists[a].cache] =
                 [node |-> [i \in PoolIds |-> c.node[i]],
                  node_used |-> c.node_used]]
  /\ mlfault' = c.fault

\* The steps on the lists leave the single list of the other
\* specifications alone.
MLFrame == UNCHANGED << listvars, fault, histvars, mtvars >>

\* list_init(l), up to its assert on cur_cache.
InitAssert(t, a) ==
  /\ mlfault = "none"
  /\ ithr[t].pc = "idle"
  /\ ~lists[a].init
  /\ \A u \in Threads : ithr[u].pc = "idle" \/ ithr[u].l # a
  /\ IF cur_cache < NUM_CACHE
       THEN /\ ithr' = [ithr EXCEPT ![t] =
                          [@ EXCEPT !.pc = "init_bind", !.l = a,
                                    !.seen = cur_cache]]
            /\ mlfault' = "none"
       ELSE /\ mlfault' = "assert"
            /\ UNCHANGED ithr
  /\ acted' = [t |-> t, l |-> a, op |-> "init"]
  /\ UNCHANGED << cur_cache, cache, lists, handed >>
  /\ MLFrame

\* l->cache = &cache[cur_cache++] and the rest of list_init.  cur_cache is
\* a plain static: the index is the value read for the assert or the value
\* in memory now, and the store writes that index plus one.
InitBind(t) ==
  /\ mlfault = "none"
  /\ ithr[t].pc = "init_bind"
  /\ \E idx \in {ithr[t].seen, cur_cache} :
       /\ idx \in CacheMem
       /\ cur_cache' = idx + 1
       /\ lists' = [lists EXCEPT ![ithr[t].l] =
                      [RawList EXCEPT !.init = TRUE, !.cache = idx]]
       /\ handed' = [handed EXCEPT ![idx] = @ + 1]
  /\ ithr' = [ithr EXCEPT ![t] = [@ EXCEPT !.pc = "idle", !.l = 0, !.seen = 0]]
  /\ acted' = [t |-> t, l |-> ithr[t].l, op |-> "init"]
  /\ UNCHANGED << cache, mlfault >>
  /\ MLFrame

\* Thread t can call a locking operation on list a and get its lock.
CanCall(t, a) ==
  /\ mlfault = "none"
  /\ ithr[t].pc = "idle"
  /\ lists[a].init
  /\ mutex_can_lock(lists[a].lock, t)

\* A whole locking operation of thread t on list a, from its
\* pthread_mutex_lock to its pthread_mutex_unlock.  A list bound past the
\* end of cache[] works on whatever memory lies there, or faults.
Operate(t, a, op, c) ==
  /\ CanCall(t, a)
  /\ \/ Unbundle(a, c)
     \/ /\ lists[a].cache \notin CacheIds
        /\ mlfault' = "segv"
        /\ UNCHANGED << lists, cache >>
  /\ acted' = [t |-> t, l |-> a, op |-> op]
  /\ UNCHANGED << cur_cache, ithr, handed >>
  /\ MLFrame

MLInsert(t, a) ==
  \E mem \in MLSpans : Operate(t, a, "insert", list_insert(Bundle(a), mem))

MLRemove(t, a) ==
  \E mem \in MLSpans : Operate(t, a, "remove", list_remove(Bundle(a), mem))

MLClear(t, a) == Operate(t, a, "clear", list_clear(Bundle(a)))

\* list_atomic_start(l) by a thread that holds no list's lock.
MLAtomicStart(t, a) ==
  /\ CanCall(t, a)
  /\ ithr[t].held = 0
  /\ lists' = [lists EXCEPT ![a].lock = list_atomic_start(@, t)]
  /\ ithr' = [ithr EXCEPT ![t].held = a]
  /\ acted' = [t |-> t, l |-> a, op |-> "atomic_start"]
  /\ UNCHANGED << cur_cache, cache, handed, mlfault >>
  /\ MLFrame

\* The matching list_atomic_end(l).
MLAtomicEnd(t) ==
  /\ mlfault = "none"
  /\ ithr[t].pc = "idle"
  /\ ithr[t].held # 0
  /\ lists' = [lists EXCEPT ![ithr[t].held].lock = list_atomic_end(@, t)]
  /\ ithr' = [ithr EXCEPT ![t].held = 0]
  /\ acted' = [t |-> t, l |-> ithr[t].held, op |-> "atomic_end"]
  /\ UNCHANGED << cur_cache, cache, handed, mlfault >>
  /\ MLFrame

MLNext ==
  \E t \in Threads :
    \/ \E a \in Lists :
         \/ InitAssert(t, a)
         \/ MLInsert(t, a)
         \/ MLRemove(t, a)
         \/ MLClear(t, a)
         \/ MLAtomicStart(t, a)
    \/ InitBind(t)
    \/ MLAtomicEnd(t)

\* No list initialised yet; some caches may have gone to other lists.
MLStart ==
  /\ head = NULL
  /\ tail = NULL
  /\ size = 0
  /\ node = [n \in NodeIds |-> ZeroNode]
  /\ node_used = [i \in PoolIds |-> FALSE]
  /\ heap = {}
  /\ fault = "none"
  /\ lastOp = "init"
  /\ lastMem = NoSpan
  /\ preSpans = << >>
  /\ preSize = 0
  /\ ret = FALSE
  /\ derefNull = FALSE
  /\ MTInit
  /\ \E k \in CacheIds : MLInit(k)

SpecML == MLStart /\ [][MLNext]_vars

-----------------------------------------------------------------------------
(* Properties of several lists *)

\* What list b owns: its fields, its stored spans and the used-flags of the
\* cache it is bound to.
Owned(b) ==
  << lists[b].head, lists[b].tail, lists[b].size, lists[b].lock,
     StoredSpans(Bundle(b)), cache[lists[b].cache].node_used >>

\* The last step was a public operation on initialised list a.
OperatedOn(a) ==
  /\ acted.l = a
  /\ acted.op \in {"insert", "remove", "clear", "atomic_start", "atomic_end"}

\* Another thread holds the lock of list b.
HeldByOther(t, b) == lists[b].lock.owner \notin {0, t}

\* C16: list instances are independent.  A thread that can get list a's
\* lock can run its operation whatever the locks of the other lists, and
\* an operation on a leaves the head, tail, size, lock, stored spans and
\* pool used-flags of every other initialised list b unchanged.
C16_ListsIndependent ==
  /\ [](\A t \in Threads : \A a \in Lists :
          CanCall(t, a) => ENABLED MLClear(t, a))
  /\ [][\A a, b \in Lists :
          (a # b /\ lists[a].init /\ lists[b].init /\ OperatedOn(a)')
            => Owned(b)' = Owned(b)]_vars

\* The same for two lists that list_init has bound to different entries
\* of cache[].
C16_IndependentOnDistinctCaches ==
  /\ [](\A t \in Threads : \A a \in Lists :
          CanCall(t, a) => ENABLED MLClear(t, a))
  /\ [][\A a, b \in Lists :
          (/\ a # b /\ lists[a].init /\ lists[b].init /\ OperatedOn(a)'
           /\ lists[a].cache # lists[b].cache
           /\ lists[a].cache \in CacheIds /\ lists[b].cache \in CacheIds)
            => Owned(b)' = Owned(b)]_vars

\* An insert on one list has completed while another thread held the lock
\* of the other list, the two lists bound to different caches.
C16_DistinctWitness ==
  /\ mlfault = "none"
  /\ acted.op = "insert"
  /\ \E b \in Lists :
       /\ b # acted.l
       /\ lists[b].init
       /\ lists[b].size = 1
       /\ HeldByOther(acted.t, b)
       /\ lists[b].cache # lists[acted.l].cache

\* C20: no cache index is handed out twice, none at or beyond NUM_CACHE,
\* and no two initialised lists are bound to the same cache.
C20_PoolsNeverShared ==
  /\ \A i \in CacheMem : handed[i] <= 1
  /\ handed[NUM_CACHE] = 0
  /\ \A a, b \in Lists :
       (a # b /\ lists[a].init /\ lists[b].init)
         => lists[a].cache # lists[b].cache
  /\ \A a \in Lists : lists[a].init => lists[a].cache \in CacheIds

-----------------------------------------------------------------------------
(* Properties of the paths inside list_remove and list_seek *)

\* The predecessor list_remove(c, mem) looks at: the node before the one
\* list_seek returns, or the tail.
PrevOf(c, mem) ==
  LET cur == list_seek(c, mem) IN
  IF cur # NULL THEN c.node[cur].prev ELSE c.tail

\* list_remove(c, mem) takes the interior-split path.
SplitCase(c, mem) ==
  /\ c.fault = "none"
  /\ c.head # NULL
  /\ PrevOf(c, mem) # NULL
  /\ list_check_overlap(c.node[PrevOf(c, mem)].mem, mem)
  /\ c.node[PrevOf(c, mem)].mem.high > mem.high

\* The nodes of c from head to tail.
IdsOf(c) == WalkIds(c, c.head, Cardinality(NodeIds) + 1)

\* sq with the span s put at its place in ascending order of low.
WithSpan(sq, s) ==
  LET k == Cardinality({ i \in 1 .. Len(sq) : sq[i].low < s.low }) IN
  [i \in 1 .. (Len(sq) + 1) |->
     IF i <= k THEN sq[i] ELSE IF i = k + 1 THEN s ELSE sq[i - 1]]

\* C21: on the interior-split path of list_remove the two re-inserts add
\* exactly their own span each, merged with no neighbour and not with each
\* other; the successor found by the seek is still a node of the list with
\* its span unchanged; the successor walk that follows changes nothing; and
\* this is the list that list_remove returns.
C21_SplitReinsertsDoNotMerge ==
  \A mem \in ValidSpans :
    SplitCase(L, mem) =>
      LET cur  == list_seek(L, mem)
          prev == PrevOf(L, mem)
          cur_span == node[prev].mem
          lo == [low |-> cur_span.low, high |-> mem.low]
          hi == [low |-> mem.high, high |-> cur_span.high]
          c1 == list_delete(L, prev).st
          c2 == list_insert(c1, lo)
          c3 == list_insert(c2, hi)
      IN /\ c3.fault = "none"
         /\ StoredSpans(c2) = WithSpan(StoredSpans(c1), lo)
         /\ StoredSpans(c3) = WithSpan(StoredSpans(c2), hi)
         /\ c3.size = size + 1
         /\ cur # NULL =>
              /\ \E i \in 1 .. Len(IdsOf(c3)) : IdsOf(c3)[i] = cur
              /\ c3.node[cur].mem = node[cur].mem
              /\ ~list_check_overlap(mem, c3.node[cur].mem)
         /\ remove_next(c3, cur, mem) = c3
         /\ list_remove(L, mem) = c3

\* A list_remove has taken the interior-split path, and in the list it
\* left a further split is possible on a predecessor that has a successor.
C21_Witness ==
  /\ Did("remove")
  /\ Len(preSpans) = 1
  /\ preSpans[1].low < lastMem.low
  /\ lastMem.high < preSpans[1].high
  /\ Len(Cur) = 2
  /\ \E mem \in ValidSpans : SplitCase(L, mem) /\ list_seek(L, mem) # NULL

\* The successors the walk of the last list_remove visited with its test
\* true: the spans at or after the removed span's low that overlapped it.
Visited ==
  { i \in 1 .. Len(preSpans) :
      preSpans[i].low >= lastMem.low /\ Intersects(preSpans[i], lastMem) }

\* A visited successor that was not contained in the removed span.
Partial(i) == preSpans[i].high > lastMem.high

\* What is left of a partial successor.
Trimmed(i) == [low |-> lastMem.high, high |-> preSpans[i].high]

\* C22: in the successor walk of list_remove at most one visited successor
\* is a partial overlap and it is the last one visited; every successor
\* visited before it is gone from the list; the partial one is left with
\* its low raised to the removed span's high, where it no longer overlaps
\* the removed span, so that the walk has stopped at it: the walk run
\* again from that node changes nothing, and the successors after it are
\* as they were.
C22_OnePartialSuccessorLast ==
  Did("remove") =>
    /\ \A i \in Visited : Partial(i) => i = SetMax(Visited)
    /\ \A i \in Visited :
         ~Partial(i) => Covered(Cur) \cap Cells(preSpans[i]) = {}
    /\ \A i \in Visited :
         Partial(i) =>
           /\ Trimmed(i) \in Range(Cur)
           /\ ~Intersects(Trimmed(i), lastMem)
           /\ \A k \in 1 .. Len(CurIds) :
                node[CurIds[k]].mem = Trimmed(i)
                  => remove_next(L, CurIds[k], lastMem) = L
    /\ \A j \in 1 .. Len(preSpans) :
         (Visited # {} /\ j > SetMax(Visited)) => preSpans[j] \in Range(Cur)
    /\ Cardinality({ s \in Range(Cur) : s.low >= lastMem.low })
         = Cardinality({ j \in 1 .. Len(preSpans) :
                           preSpans[j].high > lastMem.high })

\* A list_remove whose walk deleted one successor and then trimmed the
\* next.
C22_Witness ==
  /\ Did("remove")
  /\ Cardinality(Visited) = 2
  /\ Partial(SetMax(Visited))
  /\ Len(Cur) = Len(preSpans) - 1

\* The positions, head first, of the nodes whose low is at or above s.low.
AtOrAbove(s) == { i \in 1 .. Len(CurIds) : node[CurIds[i]].mem.low >= s.low }

\* C24: list_seek returns the first node from head whose low is greater
\* than or equal to the span's low, a node with exactly that low included;
\* every node before it has a smaller low; it returns NULL exactly when
\* the list is empty or every stored low is smaller.  list_seek is a
\* function of the list and the span that yields a node and nothing else.
C24_SeekFirstAtOrAbove ==
  fault = "none" =>
    \A mem \in ValidSpans :
      LET r == list_seek(L, mem) IN
      /\ (r = NULL) <=> (AtOrAbove(mem) = {})
      /\ r # NULL =>
           /\ r = CurIds[SetMin(AtOrAbove(mem))]
           /\ node[r].mem.low >= mem.low
           /\ \A i \in 1 .. Len(CurIds) :
                i < SetMin(AtOrAbove(mem)) => node[CurIds[i]].mem.low < mem.low
      /\ (\E i \in 1 .. Len(CurIds) : node[CurIds[i]].mem.low = mem.low)
           => (r # NULL /\ node[r].mem.low = mem.low)

\* A list of two nodes in which a seek finds the second node by its
\* exact low, and another seek runs off the end; the list_remove before
\* used list_seek with the low of a stored node.
C24_Witness ==
  /\ Did("remove")
  /\ \E i \in 1 .. Len(preSpans) : preSpans[i].low = lastMem.low
  /\ Len(CurIds) = 2
  /\ \E mem \in ValidSpans :
       /\ list_seek(L, mem) = CurIds[2]
       /\ node[CurIds[2]].mem.low = mem.low
  /\ \E mem \in ValidSpans : list_seek(L, mem) = NULL

-----------------------------------------------------------------------------
(* Termination and freedom from deadlock of the threaded list *)

\* The number of times the loop of list_seek(c, mem) moves to the next
\* node when it starts at cur.
RECURSIVE seek_steps(_, _, _)
seek_steps(c, cur, mem) ==
  IF cur # NULL /\ c.node[cur].mem.low < mem.low
  THEN 1 + seek_steps(c, c.node[cur].next, mem)
  ELSE 0

\* The nodes from n to the end of the chain.
From(n) == WalkIds(L, n, Cardinality(NodeIds) + 1)

\* What is left to do for the loop thread t is in: the successors still
\* to merge, the successors that still overlap the removed span, the
\* nodes still to free.
LoopWork(t) ==
  CASE thr[t].pc = "ins_mnext" -> Len(From(thr[t].next))
    [] thr[t].pc = "rem_walk" ->
         Cardinality({ k \in 1 .. Len(From(thr[t].cur)) :
                         Intersects(node[From(thr[t].cur)[k]].mem, thr[t].mem) })
    [] thr[t].pc = "clr_loop" -> Len(From(thr[t].cur))
    [] OTHER -> 0

\* A step of thread t inside an operation it has entered, or the
\* list_atomic_end of its open scope.
Proceeds(t) ==
  \/ InsLock(t) \/ InsCreate(t) \/ InsLink(t) \/ InsMergePrev(t)
  \/ InsMergeNext(t) \/ InsUnlock(t)
  \/ RemPrev(t) \/ RemIns1(t) \/ RemIns2(t) \/ RemWalk(t) \/ RemUnlock(t)
  \/ OvlBody(t) \/ OvlUnlock(t)
  \/ ClrHead(t) \/ ClrLoop(t) \/ ClrReset(t) \/ ClrUnlock(t)
  \/ PrtBody(t) \/ PrtUnlock(t)
  \/ AtomicEnd(t)

\* The loops are bounded by the size of the list: list_seek moves on at
\* most size times, a loop has at most size units of work left, and each
\* pass through a loop body takes one unit away.
LoopsBounded ==
  /\ [](\A t \in Threads :
          /\ LoopWork(t) <= size
          /\ thr[t].pc \in {"ins_link", "rem_prev", "ovl_body"}
               => seek_steps(L, head, thr[t].imem) <= size)
  /\ [][\A t \in Threads :
          (/\ actor' = t
           /\ thr[t].pc \in {"ins_mnext", "rem_walk", "clr_loop"}
           /\ thr'[t].pc = thr[t].pc
           /\ fault' = "none")
            => LoopWork(t)' < LoopWork(t)]_vars

\* C23: every operation terminates and no thread waits for ever.  The
\* loops are bounded by the size of the list; a thread inside an operation
\* or holding the lock always has a next step, so that under fair
\* scheduling it returns and gives the lock back; and whenever the lock is
\* free a thread that calls an operation gets it.
C23_TerminatesNoDeadlock ==
  /\ LoopsBounded
  /\ [](\A t \in Threads :
          /\ (InBody(t) \/ lock.owner = t) => ENABLED Proceeds(t)
          /\ (thr[t].pc = "idle" /\ lock.owner = 0) => ENABLED CallClear(t))

\* The same as long as no list_overlaps has read through a NULL pointer.
C23_TerminatesWhileNoFault ==
  /\ LoopsBounded
  /\ [](fault = "none" =>
          \A t \in Threads :
            /\ (InBody(t) \/ lock.owner = t) => ENABLED Proceeds(t)
            /\ (thr[t].pc = "idle" /\ lock.owner = 0) => ENABLED CallClear(t))
  /\ [](fault # "none" => \E t \in Threads : thr[t].pc = "ovl_unlock")

\* Fair scheduling: a thread that can take a step inside its operation
\* takes it, and a thread with an open scope comes to its list_atomic_end.
SpecMTFair ==
  /\ SpecMT
  /\ \A t \in Threads : WF_vars(Proceeds(t)) /\ SF_vars(AtomicEnd(t))

\* Under fair scheduling every operation that was entered returns and
\* every holder gives the lock back, unless a list_overlaps has read
\* through a NULL pointer.
C23_ReturnsUnlessFault ==
  \A t \in Threads :
    /\ InBody(t) ~> (~InBody(t) \/ fault # "none")
    /\ (lock.owner = t) ~> (lock.owner # t \/ fault # "none")

====
